---- MODULE Spec2Model ----
(***************************************************************************)
(* Reminder store, publisher and synchronizer of Daily-Health-Care.        *)
(*                                                                         *)
(* Each observer (a host) runs one ReminderManager over its own SQLite     *)
(* table `reminders`, one ReminderMQTTPublisher and one ReminderSync       *)
(* subscribed to the shared reminder topic.  Text that the code inspects   *)
(* character by character (ISO timestamps, the comma-joined tag column) is *)
(* a sequence of one-character strings; text that is only stored and       *)
(* handed back (content, user_id, severity, status) is a TLA+ string.      *)
(***************************************************************************)
EXTENDS Integers, Sequences, FiniteSets, TLC

VARIABLES
    store,            \* store[o]: rows of table reminders of observer o, in rowid order
    sqlite_sequence,  \* sqlite_sequence[o]: largest id AUTOINCREMENT has handed out
    available,        \* available[o]: ReminderMQTTPublisher.available
    subscribed,       \* observers whose ReminderSync is connected and subscribed
    inbox,            \* inbox[o]: messages the broker has queued for o's on_message
    sent,             \* number of messages the broker has taken for its subscribers
    last,             \* the most recent call: its arguments, outcome and effects
    running           \* running[t]: where thread t is inside a manager call

vars ==
    <<store, sqlite_sequence, available, subscribed, inbox, sent, last, running>>

---------------------------------------------------------------------------
(* Bounds                                                                  *)

MaxRows ==
    2

MaxSent ==
    1

---------------------------------------------------------------------------
(* Values                                                                  *)

\* Origin identities: REMINDER_SOURCE_ID / socket.gethostname() of each process.
Obs ==
    {"hostA", "hostB"}

\* A publisher on the public broker that is none of the observers.
Stranger ==
    "hostX"

DEFAULT_USER_ID ==
    "user_001"

\* SQL NULL / Python None in a text column.
NULL ==
    <<"NULL">>

\* No datetime given (due_time=None).
NoTime ==
    [d |-> 0, h |-> 0, m |-> 0, s |-> 0, us |-> 0]

\* Every event name a publisher sends, "created" included.
EveryEvent ==
    {"created", "completed", "ignored", "pending", "triggered"}

\* The event names _on_message applies.
SyncStatuses ==
    {"completed", "ignored", "pending", "triggered"}

\* ASCII order of the characters that occur in the modelled text.
Ascii ==
    <<" ", ",", ".", "0", "1", "2", "3", "4", "5", "6", "7", "8", "9", ":", "T", "a", "b">>

Ord(c) ==
    CHOOSE i \in 1..Len(Ascii) : Ascii[i] = c

DigitChar(n) ==
    Ascii[4 + n]

---------------------------------------------------------------------------
(* Text conversions                                                        *)

\* A naive datetime is [d, h, m, s, us]: the day, the hour, the minute, the
\* second and the microseconds; the year and the month are the same in every
\* timestamp modelled, and the day keeps one digit.
TwoDigits(n) ==
    <<DigitChar(n \div 10), DigitChar(n % 10)>>

\* "<hh>:<mm>:<ss>"
Clock(t) ==
    TwoDigits(t.h) \o <<":">> \o TwoDigits(t.m) \o <<":">> \o TwoDigits(t.s)

\* datetime.isoformat(): "<d>T<hh>:<mm>:<ss>" and, only when us # 0, ".<ffffff>".
isoformat(t) ==
    <<DigitChar(t.d), "T">> \o Clock(t)
        \o (IF t.us = 0
            THEN <<>>
            ELSE <<".">> \o [i \in 1..6 |-> DigitChar((t.us \div (10 ^ (6 - i))) % 10)])

\* SQLite CURRENT_TIMESTAMP: "<d> <hh>:<mm>:<ss>", a space where isoformat
\* has "T", whole seconds only.
CURRENT_TIMESTAMP(t) ==
    <<DigitChar(t.d), " ">> \o Clock(t)

\* datetime.fromisoformat of a text isoformat produced; NULL is no datetime.
DigitValue(c) ==
    Ord(c) - 4

fromisoformat(text) ==
    IF text = NULL
    THEN NoTime
    ELSE [d  |-> DigitValue(text[1]),
          h  |-> 10 * DigitValue(text[3]) + DigitValue(text[4]),
          m  |-> 10 * DigitValue(text[6]) + DigitValue(text[7]),
          s  |-> 10 * DigitValue(text[9]) + DigitValue(text[10]),
          us |-> IF Len(text) = 10
                 THEN 0
                 ELSE LET F[i \in 0..6] ==
                              IF i = 0 THEN 0 ELSE 10 * F[i - 1] + DigitValue(text[11 + i])
                      IN  F[6]]

\* due_time.isoformat() if isinstance(due_time, datetime) else due_time
due_str(due) ==
    IF due = NoTime THEN NULL ELSE isoformat(due)

\* Chronological order of two datetimes.
TimeLeq(t1, t2) ==
    LET secs(t) == ((t.d * 24 + t.h) * 60 + t.m) * 60 + t.s
    IN  \/ secs(t1) < secs(t2)
        \/ secs(t1) = secs(t2) /\ t1.us <= t2.us

\* datetime + timedelta(minutes=n)
plus_minutes(t, n) ==
    LET total == (t.h * 60 + t.m) + n
    IN  [t EXCEPT !.d = t.d + (total \div (24 * 60)),
                  !.h = (total % (24 * 60)) \div 60,
                  !.m = total % 60]

\* SQLite's comparison of two TEXT values (BINARY collation): memcmp on the
\* common prefix, then the shorter one first.
TextLeq(a, b) ==
    LET n == IF Len(a) < Len(b) THEN Len(a) ELSE Len(b)
    IN  \/ \E k \in 1..n : /\ \A i \in 1..(k - 1) : a[i] = b[i]
                           /\ Ord(a[k]) < Ord(b[k])
        \/ /\ \A i \in 1..n : a[i] = b[i]
           /\ Len(a) <= Len(b)

\* ",".join(tags)
RECURSIVE join(_)
join(tags) ==
    IF Len(tags) = 0 THEN <<>>
    ELSE IF Len(tags) = 1 THEN tags[1]
    ELSE tags[1] \o <<",">> \o join(Tail(tags))

\* tag_str = ",".join(tags) if tags else None
tag_str(tags) ==
    IF tags = <<>> THEN NULL ELSE join(tags)

\* str.split(",")
RECURSIVE split(_)
split(s) ==
    IF \A i \in 1..Len(s) : s[i] # ","
    THEN <<s>>
    ELSE LET k == CHOOSE i \in 1..Len(s) :
                      s[i] = "," /\ \A j \in 1..(i - 1) : s[j] # ","
         IN  <<SubSeq(s, 1, k - 1)>> \o split(SubSeq(s, k + 1, Len(s)))

\* r.tags.split(",") if r.tags else []     (the reader of the tags column)
tags_of(row) ==
    IF row.tags = NULL \/ row.tags = <<>> THEN <<>> ELSE split(row.tags)

Range(f) ==
    {f[i] : i \in DOMAIN f}

\* The element of a one-element set.
Only(S) ==
    CHOOSE x \in S : TRUE

---------------------------------------------------------------------------
(* Reminder rows, lifecycle records and sync events                        *)

\* The row INSERT writes: status and created_at take their column defaults.
NewRow(id, req, now) ==
    [id          |-> id,
     user_id     |-> req.user_id,
     content     |-> req.content,
     severity    |-> req.severity,
     due_time    |-> due_str(req.due_time),
     repeat_rule |-> req.repeat_rule,
     status      |-> "pending",
     tags        |-> tag_str(req.tags),
     created_at  |-> CURRENT_TIMESTAMP(now)]

\* The largest id ever used, handed out again.
reused_rowid(rows, seq) ==
    LET used == {rows[i].id : i \in DOMAIN rows} \cup {seq}
    IN  CHOOSE m \in used : \A x \in used : x <= m

\* INTEGER PRIMARY KEY AUTOINCREMENT: one more than the largest id ever used.
next_rowid(rows, seq) ==
    LET used == {rows[i].id : i \in DOMAIN rows} \cup {seq}
    IN  1 + CHOOSE m \in used : \A x \in used : x <= m

\* Reminder.to_payload
to_payload(row) ==
    [type        |-> "reminder",
     id          |-> row.id,
     user_id     |-> row.user_id,
     content     |-> row.content,
     severity    |-> row.severity,
     due_time    |-> row.due_time,
     repeat_rule |-> row.repeat_rule,
     status      |-> row.status,
     tags        |-> row.tags,
     created_at  |-> row.created_at]

\* The lifecycle record written as a routing_result event.
log_as_routing_result(user_id, reminder_id, status, note) ==
    [event_type |-> "routing_result",
     user_id    |-> user_id,
     route      |-> "macro",
     message    |-> <<note>>]

\* The record SystemMemoryManager.log_reminder_event stores; note "" is no note.
log_reminder_event(user_id, reminder_id, status, note) ==
    [event_type  |-> "reminder_event",
     user_id     |-> user_id,
     reminder_id |-> reminder_id,
     status      |-> status,
     note        |-> note]

\* publish with the reminder's status as the event name.
publish_status_as_event(o, row, event) ==
    IF ~available[o]
    THEN <<>>
    ELSE <<[event |-> row.status, reminder |-> to_payload(row), source |-> o]>>

\* publish without its check of `available`.
publish_unchecked(o, row, event) ==
    <<[event |-> event, reminder |-> to_payload(row), source |-> o]>>

\* ReminderMQTTPublisher.publish: the messages handed to the broker
\* (published_at, which no receiver reads, is left out).
publish(o, row, event) ==
    IF ~available[o]
    THEN <<>>
    ELSE <<[event |-> event, reminder |-> to_payload(row), source |-> o]>>

\* The UPDATE without its WHERE clause.
UpdateEveryRow(rows, id, status) ==
    [i \in DOMAIN rows |-> [rows[i] EXCEPT !.status = status]]

\* The write as INSERT OR REPLACE of (id, status): the other columns of the
\* row fall back to their defaults.
ReplaceRow(rows, id, status) ==
    [i \in DOMAIN rows |->
        IF rows[i].id = id
        THEN [rows[i] EXCEPT !.status = status, !.severity = "medium",
                             !.due_time = NULL, !.tags = NULL]
        ELSE rows[i]]

\* UPDATE reminders SET status = ? WHERE id = ?
UpdateRows(rows, id, status) ==
    [i \in DOMAIN rows |->
        IF rows[i].id = id THEN [rows[i] EXCEPT !.status = status] ELSE rows[i]]

\* The SELECT without its WHERE clause: fetchone yields the first row.
SelectAny(rows, id) ==
    rows

\* SELECT * FROM reminders WHERE id = ?   (fetchone: <<>> is None)
SelectById(rows, id) ==
    SelectSeq(rows, LAMBDA r : r.id = id)

---------------------------------------------------------------------------
(* ReminderManager: what one call does to the table, what it returns or    *)
(* raises, and what it logs and publishes.  memOk is whether the memory    *)
(* collaborator's log call returns (TRUE) or raises (FALSE).               *)

\* create_reminder that hands back a pending reminder of the same user and
\* content instead of inserting a second one.
create_unless_pending(o, rows, seq, req, now, memOk) ==
    LET same == SelectSeq(rows, LAMBDA r : /\ r.status = "pending"
                                           /\ r.user_id = req.user_id
                                           /\ r.content = req.content)
        id   == next_rowid(rows, seq)
        row  == NewRow(id, req, now)
    IN  IF same # <<>>
        THEN [rows |-> rows, seq |-> seq, raised |-> "", ret |-> <<same[1]>>,
              logged |-> <<>>, published |-> <<>>]
        ELSE [rows      |-> Append(rows, row),
              seq       |-> id,
              raised    |-> IF memOk THEN "" ELSE "LoggingFailure",
              ret       |-> IF memOk THEN <<row>> ELSE <<>>,
              logged    |-> IF memOk
                            THEN <<log_reminder_event(req.user_id, id, "created", req.content)>>
                            ELSE <<>>,
              published |-> IF memOk THEN publish(o, row, "created") ELSE <<>>]

create_reminder(o, rows, seq, req, now, memOk) ==
    LET id  == next_rowid(rows, seq)
        row == NewRow(id, req, now)
    IN  [rows      |-> Append(rows, row),
         seq       |-> id,
         raised    |-> IF memOk THEN "" ELSE "LoggingFailure",
         ret       |-> IF memOk THEN <<row>> ELSE <<>>,
         logged    |-> IF memOk
                       THEN <<log_reminder_event(req.user_id, id, "created", req.content)>>
                       ELSE <<>>,
         published |-> IF memOk THEN publish(o, row, "created") ELSE <<>>]

update_status(o, rows, reminder_id, status, note, user_id, propagate_mqtt, memOk) ==
    LET rows2 == UpdateRows(rows, reminder_id, status)
        found == SelectById(rows2, reminder_id)
    IN  IF found = <<>>
        THEN \* Reminder.from_row(None) raises TypeError
             [rows |-> rows2, raised |-> "TypeError", ret |-> <<>>,
              logged |-> <<>>, published |-> <<>>]
        ELSE IF ~memOk
        THEN [rows |-> rows2, raised |-> "LoggingFailure", ret |-> <<>>,
              logged |-> <<>>, published |-> <<>>]
        ELSE [rows      |-> rows2,
              raised    |-> "",
              ret       |-> <<found[1]>>,
              logged    |-> <<log_reminder_event(user_id, reminder_id, status, note)>>,
              published |-> IF propagate_mqtt
                            THEN publish(o, found[1], status)
                            ELSE <<>>]

\* WHERE status = 'pending' AND due_time IS NOT NULL AND due_time <= ?
due_rows(rows, now) ==
    SelectSeq(rows, LAMBDA r : /\ r.status = "pending"
                               /\ r.due_time # NULL
                               /\ TextLeq(r.due_time, isoformat(now)))

\* for reminder in reminders: self.update_status(reminder.id, "triggered", ...)
\* k counts the calls; the log call of call number failAt raises (0: none does).
RECURSIVE sweep(_, _, _, _, _)
sweep(o, rows, todo, k, failAt) ==
    IF todo = <<>>
    THEN [rows |-> rows, raised |-> "", logged |-> <<>>, published |-> <<>>]
    ELSE LET e == update_status(o, rows, Head(todo).id, "triggered", "",
                                Head(todo).user_id, TRUE, k # failAt)
         IN  IF e.raised # ""
             THEN [rows |-> e.rows, raised |-> e.raised,
                   logged |-> e.logged, published |-> e.published]
             ELSE LET rest == sweep(o, e.rows, Tail(todo), k + 1, failAt)
                  IN  [rows      |-> rest.rows,
                       raised    |-> rest.raised,
                       logged    |-> e.logged \o rest.logged,
                       published |-> e.published \o rest.published]

trigger_due_reminders(o, rows, now, failAt) ==
    LET reminders == due_rows(rows, now)
        e         == sweep(o, rows, reminders, 1, failAt)
    IN  [rows      |-> e.rows,
         raised    |-> e.raised,
         ret       |-> IF e.raised = "" THEN reminders ELSE <<>>,
         logged    |-> e.logged,
         published |-> e.published]

\* COALESCE(due_time, created_at): the TEXT the rows are ordered by.
order_key(row) ==
    IF row.due_time # NULL THEN row.due_time ELSE row.created_at

\* ORDER BY COALESCE(due_time, created_at): the rows in ascending order of
\* their TEXT keys; rows with equal keys stay in the order of the scan.
RECURSIVE order_by(_)
order_by(rows) ==
    IF rows = <<>>
    THEN <<>>
    ELSE LET r      == rows[Len(rows)]
             sorted == order_by(SubSeq(rows, 1, Len(rows) - 1))
             k      == Cardinality({i \in DOMAIN sorted :
                                        TextLeq(order_key(sorted[i]), order_key(r))})
         IN  SubSeq(sorted, 1, k) \o <<r>> \o SubSeq(sorted, k + 1, Len(sorted))

\* ReminderManager.list_reminders: `if status:` and `if user_id:` add the
\* WHERE clauses, so None and "" both mean no filter.
list_reminders(rows, status, user_id) ==
    order_by(SelectSeq(rows, LAMBDA r : /\ status # "" => r.status = status
                                        /\ user_id # "" => r.user_id = user_id))

\* SELECT * FROM reminders WHERE id IN (...)
get_reminders_by_ids(rows, ids) ==
    IF ids = <<>>
    THEN <<>>
    ELSE SelectSeq(rows, LAMBDA r : r.id \in Range(ids))

---------------------------------------------------------------------------
(* ReminderSync._on_message                                                *)

\* The handler without its source check.
never_own(o, msg) ==
    FALSE

\* if payload.get("source") == self.source_id: return
is_own(o, msg) ==
    msg.source = o

\* The handler's call of update_status with the default propagate_mqtt.
propagate_always ==
    TRUE

\* propagate_mqtt=False in the handler's call of update_status
propagate_mqtt_of_sync ==
    FALSE

\* msg is the decoded JSON object: [event, reminder, source].  A key that is
\* missing reads as None, which the handler cannot tell from "" or 0: both
\* are falsy in `or` and `and`.  An absent id is 0, an absent string "".
on_message(o, rows, msg, memOk) ==
    IF is_own(o, msg)
    THEN [rows |-> rows, raised |-> "", caught |-> "", ret |-> <<>>,
          logged |-> <<>>, published |-> <<>>, outcome |-> "echo"]
    ELSE LET event       == msg.event
             reminder_id == msg.reminder.id
             status      == IF msg.reminder.status # "" THEN msg.reminder.status ELSE event
             user_id     == IF msg.reminder.user_id # ""
                            THEN msg.reminder.user_id
                            ELSE DEFAULT_USER_ID
         IN  IF event \in SyncStatuses /\ reminder_id # 0
             THEN LET e == update_status(o, rows, reminder_id, status, "",
                                         user_id, propagate_mqtt_of_sync, memOk)
                  IN  [rows      |-> e.rows,
                       raised    |-> "",
                       caught    |-> e.raised,
                       ret       |-> <<>>,
                       logged    |-> e.logged,
                       published |-> e.published,
                       outcome   |-> IF e.raised = "" THEN "applied" ELSE "failed"]
             ELSE [rows |-> rows, raised |-> "", caught |-> "", ret |-> <<>>,
                   logged |-> <<>>, published |-> <<>>, outcome |-> "ignored"]

\* _on_message from the bytes the broker hands it.  raw is a decoded JSON
\* object as above, or carries `form`, the way it fails to be one:
\*   "bytes"     msg.payload.decode("utf-8") raises      (caught, line 59)
\*   "text"      json.loads raises                       (caught, line 59)
\*   "value"     valid JSON that is no object: payload.get raises
\*               AttributeError at line 63, outside every try
\*   "reminder"  an object whose reminder is a non-empty string, array or
\*               number: after the source check, reminder.get raises
\*               AttributeError at line 68, outside every try
receive(o, rows, raw, memOk) ==
    LET end(raised, outcome) ==
            [rows |-> rows, raised |-> raised, caught |-> "", ret |-> <<>>,
             logged |-> <<>>, published |-> <<>>, outcome |-> outcome]
    IN  IF "form" \notin DOMAIN raw
        THEN on_message(o, rows, raw, memOk)
        ELSE IF raw.form \in {"bytes", "text"}
        THEN end("", "discarded")
        ELSE IF raw.form = "value"
        THEN end("AttributeError", "")
        ELSE IF is_own(o, raw)
        THEN end("", "echo")
        ELSE end("AttributeError", "")

---------------------------------------------------------------------------
(* RiskRouter.evaluate                                                     *)
(*                                                                         *)
(* A snapshot is [user_id, temperature, humidity, warnings, heart_rate,    *)
(* steps, sleep].  A key that is absent (or None) is <<>>, a present value *)
(* v is <<v>>; warnings is the list of warning codes.  sleep is in tenths  *)
(* of an hour, so the code's 6 (hours) is 60.                              *)

\* Python truthiness of an optional number: present and not 0.
Truthy(x) ==
    x # <<>> /\ x[1] # 0

\* if temp is not None: the first matching band
temperature_rule(temp) ==
    IF temp = <<>> THEN <<>>
    ELSE IF temp[1] >= 33 THEN <<[points |-> 4, reason |-> "high temperature", value |-> temp]>>
    ELSE IF temp[1] >= 30 THEN <<[points |-> 2, reason |-> "raised temperature", value |-> temp]>>
    ELSE IF temp[1] <= 10 THEN <<[points |-> 2, reason |-> "low temperature", value |-> temp]>>
    ELSE <<>>

\* if humidity and humidity >= 90
humidity_rule(humidity) ==
    IF Truthy(humidity) /\ humidity[1] >= 90
    THEN <<[points |-> 1, reason |-> "humidity", value |-> humidity]>>
    ELSE <<>>

\* if "WHOT" in warnings or "WRAINB" in warnings
warning_rule(warnings) ==
    IF "WHOT" \in Range(warnings) \/ "WRAINB" \in Range(warnings)
    THEN <<[points |-> 3, reason |-> "observatory warning", value |-> <<>>]>>
    ELSE <<>>

\* if heart_rate and heart_rate >= 110 ... elif heart_rate and heart_rate <= 50
heart_rate_rule(heart_rate) ==
    IF Truthy(heart_rate) /\ heart_rate[1] >= 110
    THEN <<[points |-> 3, reason |-> "high heart rate", value |-> heart_rate]>>
    ELSE IF Truthy(heart_rate) /\ heart_rate[1] <= 50
    THEN <<[points |-> 2, reason |-> "low heart rate", value |-> heart_rate]>>
    ELSE <<>>

\* if sleep and sleep < 6
sleep_rule(sleep) ==
    IF Truthy(sleep) /\ sleep[1] < 60
    THEN <<[points |-> 2, reason |-> "short sleep", value |-> sleep]>>
    ELSE <<>>

\* score += ... over the rules that fired
RECURSIVE SumPoints(_)
SumPoints(fired) ==
    IF fired = <<>> THEN 0 ELSE Head(fired).points + SumPoints(Tail(fired))

\* The thresholds taken as strict.
level_above(score) ==
    IF score > 7 THEN "high"
    ELSE IF score > 4 THEN "medium"
    ELSE "low"

\* level = "low"; if score >= 7: "high"; elif score >= 4: "medium"
level_of(score) ==
    IF score >= 7 THEN "high"
    ELSE IF score >= 4 THEN "medium"
    ELSE "low"

\* An evaluation that also counts the reminders the store holds.
evaluate_with_store(state) ==
    LET fired == temperature_rule(state.temperature)
                     \o humidity_rule(state.humidity)
                     \o warning_rule(state.warnings)
                     \o heart_rate_rule(state.heart_rate)
                     \o sleep_rule(state.sleep)
        score == SumPoints(fired) + Len(store["hostA"])
    IN  [score   |-> score,
         level   |-> level_of(score),
         reasons |-> [i \in DOMAIN fired |->
                         [reason |-> fired[i].reason, value |-> fired[i].value]]
                     \o [i \in DOMAIN store["hostA"] |->
                            [reason |-> "open reminder", value |-> <<>>]]]

\* RiskRouter.evaluate: the rules in the code's order; reasons in that order.
evaluate(state) ==
    LET fired == temperature_rule(state.temperature)
                     \o humidity_rule(state.humidity)
                     \o warning_rule(state.warnings)
                     \o heart_rate_rule(state.heart_rate)
                     \o sleep_rule(state.sleep)
        score == SumPoints(fired)
    IN  [score   |-> score,
         level   |-> level_of(score),
         reasons |-> [i \in DOMAIN fired |->
                         [reason |-> fired[i].reason, value |-> fired[i].value]]]

---------------------------------------------------------------------------
(* CareMacroEngine                                                         *)
(*                                                                         *)
(* A message is a sequence of text pieces.  The memory collaborator's      *)
(* writes of one route call are numbered from 1 in the order the code      *)
(* makes them; failAt is the number of the write that raises (0: none).    *)

\* state.get("user_id", DEFAULT_USER_ID)
user_id_of(state) ==
    IF state.user_id = <<>> THEN DEFAULT_USER_ID ELSE state.user_id[1]

\* "\n".join(messages)
RECURSIVE join_newline(_)
join_newline(messages) ==
    IF Len(messages) = 0 THEN <<>>
    ELSE IF Len(messages) = 1 THEN messages[1]
    ELSE messages[1] \o <<"\n">> \o join_newline(Tail(messages))

HeatAdvisory ==
    <<"heat advisory: hydration and family-contact reminders created">>

SleepAdvisory ==
    <<"sleep advisory: sleep-improvement reminders scheduled">>

GenericCaution ==
    <<"risk is raised, stay alert and check the reminders">>

\* The two create_reminder calls of _heat_macro.
HeatRequests(user_id, now) ==
    <<[content |-> "hydrate", user_id |-> user_id, severity |-> "high",
       due_time |-> plus_minutes(now, 30), repeat_rule |-> NULL,
       tags |-> <<<<"h", "e", "a", "t">>,
                  <<"h", "y", "d", "r", "a", "t", "i", "o", "n">>>>],
      [content |-> "contact family", user_id |-> user_id, severity |-> "high",
       due_time |-> plus_minutes(now, 60), repeat_rule |-> NULL,
       tags |-> <<<<"f", "a", "m", "i", "l", "y">>,
                  <<"s", "a", "f", "e", "t", "y">>>>]>>

\* evening = now.replace(hour=22, minute=0, second=0, microsecond=0)
\* if evening <= now: evening += timedelta(days=1)
next_evening(now) ==
    LET evening == [now EXCEPT !.h = 22, !.m = 0, !.s = 0, !.us = 0]
    IN  IF TimeLeq(evening, now) THEN plus_minutes(evening, 24 * 60) ELSE evening

\* The two create_reminder calls of _sleep_macro.
SleepRequests(user_id, now) ==
    <<[content |-> "wind down before 22:00", user_id |-> user_id, severity |-> "medium",
       due_time |-> next_evening(now), repeat_rule |-> NULL,
       tags |-> <<<<"s", "l", "e", "e", "p">>,
                  <<"r", "o", "u", "t", "i", "n", "e">>>>],
      [content |-> "log tonight's sleep", user_id |-> user_id, severity |-> "low",
       due_time |-> plus_minutes(now, 12 * 60), repeat_rule |-> NULL,
       tags |-> <<<<"s", "l", "e", "e", "p">>,
                  <<"t", "r", "a", "c", "k", "i", "n", "g">>>>]>>

\* reminders = [create_reminder(...), create_reminder(...)]: the calls in
\* order; the first one that raises ends the list (its row is committed).
\* k is the number of the first call's memory write.
RECURSIVE create_all(_, _, _, _, _, _, _)
create_all(o, rows, seq, reqs, now, k, failAt) ==
    IF reqs = <<>>
    THEN [rows |-> rows, seq |-> seq, raised |-> "", reminders |-> <<>>,
          logged |-> <<>>, published |-> <<>>]
    ELSE Only({
             IF c.raised # ""
             THEN [rows |-> c.rows, seq |-> c.seq, raised |-> c.raised,
                   reminders |-> <<>>, logged |-> c.logged, published |-> c.published]
             ELSE Only({
                      [rows      |-> rest.rows,
                       seq       |-> rest.seq,
                       raised    |-> rest.raised,
                       reminders |-> IF rest.raised = "" THEN c.ret \o rest.reminders ELSE <<>>,
                       logged    |-> c.logged \o rest.logged,
                       published |-> c.published \o rest.published] :
                      rest \in {create_all(o, c.rows, c.seq, Tail(reqs), now, k + 1, failAt)}})
             : c \in {create_reminder(o, rows, seq, Head(reqs), now, k # failAt)}})

\* if temperature and temperature >= 33 or "WHOT" in warnings
heat_fires(state) ==
    \/ Truthy(state.temperature) /\ state.temperature[1] >= 33
    \/ "WHOT" \in Range(state.warnings)

\* if vitals.get("sleep") and vitals["sleep"] < 6
sleep_fires(state) ==
    Truthy(state.sleep) /\ state.sleep[1] < 60

\* CareMacroEngine.run: the heat macro, then the sleep macro, then the
\* generic caution if neither fired.  writes is the number of memory writes
\* the run has attempted.
run(o, rows, seq, evaluation, state, now, k, failAt) ==
    LET user_id == user_id_of(state)
        none(r, q) == [rows |-> r, seq |-> q, raised |-> "", reminders |-> <<>>,
                       logged |-> <<>>, published |-> <<>>]
        fired  == (IF heat_fires(state) THEN <<HeatAdvisory>> ELSE <<>>)
                      \o (IF sleep_fires(state) THEN <<SleepAdvisory>> ELSE <<>>)
        macros == IF fired = <<>> THEN <<GenericCaution>> ELSE fired
        result(heat, sleep) ==
            LET raised == IF heat.raised # "" THEN heat.raised ELSE sleep.raised
                made   == heat.reminders \o sleep.reminders
            IN  [rows      |-> sleep.rows,
                 seq       |-> sleep.seq,
                 raised    |-> raised,
                 ret       |-> IF raised # "" THEN <<>>
                               ELSE <<[route        |-> "macro",
                                       risk_level   |-> evaluation.level,
                                       message      |-> join_newline(macros),
                                       reminder_ids |-> [i \in DOMAIN made |-> made[i].id]]>>,
                 logged    |-> heat.logged \o sleep.logged,
                 published |-> heat.published \o sleep.published,
                 writes    |-> Len(made)]
    IN  Only({Only({result(heat, sleep) :
                    sleep \in {IF heat.raised = "" /\ sleep_fires(state)
                               THEN create_all(o, heat.rows, heat.seq,
                                               SleepRequests(user_id, now), now,
                                               k + Len(heat.reminders), failAt)
                               ELSE none(heat.rows, heat.seq)}}) :
              heat \in {IF heat_fires(state)
                        THEN create_all(o, rows, seq, HeatRequests(user_id, now),
                                        now, k, failAt)
                        ELSE none(rows, seq)}})

---------------------------------------------------------------------------
(* RiskRouter.route                                                        *)
(*                                                                         *)
(* env is what the collaborators do during the call: failAt as above, llm  *)
(* ("ok" or "error") the text generator, retrieve ("empty", "docs" or      *)
(* "error") the memory collaborator's search.                              *)

\* The payload _run_rag_path builds from the snapshot and the retrieved context.
rag_payload(state, env) ==
    [state      |-> state,
     knowledge  |-> <<"none">>,
     short_term |-> IF env.retrieve = "docs" THEN <<"recent event">> ELSE <<"none">>,
     profile    |-> <<"none">>]

FallbackMessage ==
    <<"model call failed, rule output instead; cause: ", "provider error">>

\* RiskRouter._run_rag_path: retrieve is outside the try, the model call inside.
run_rag_path(evaluation, state, env) ==
    IF env.retrieve = "error"
    THEN [raised |-> "RetrievalFailure", ret |-> <<>>]
    ELSE [raised |-> "",
          ret    |-> <<[route      |-> "rag",
                        risk_level |-> evaluation.level,
                        message    |-> IF env.llm = "ok"
                                       THEN <<"model reply">>
                                       ELSE FallbackMessage,
                        evidence   |-> rag_payload(state, env)]>>]

\* RiskRouter._run_template_path
run_template_path(evaluation, state) ==
    LET base == IF state.warnings = <<>>
                THEN <<"steady today, keep a regular routine and hydrate">>
                ELSE <<"slight weather fluctuation, watch the reminders">>
    IN  [raised |-> "",
         ret    |-> <<[route      |-> "template",
                       risk_level |-> evaluation.level,
                       message    |-> IF Truthy(state.steps) /\ state.steps[1] < 3000
                                      THEN base \o <<" moderate activity helps">>
                                      ELSE base,
                       evidence   |-> [reasons |-> evaluation.reasons]]>>]

\* if level == "high": care_macro.run  elif level == "medium": rag  else: template
dispatch(level) ==
    IF level = "high" THEN "macro"
    ELSE IF level = "medium" THEN "rag"
    ELSE "template"

\* The record add_event writes for the routing_request / routing_result event.
routing_request(user_id, evaluation) ==
    [event_type |-> "routing_request", user_id |-> user_id,
     level |-> evaluation.level, reasons |-> evaluation.reasons]

routing_result(user_id, result) ==
    [event_type |-> "routing_result", user_id |-> user_id,
     route |-> result.route, message |-> result.message]

\* RiskRouter.route
route(o, rows, seq, state, now, env) ==
    LET user_id == user_id_of(state)
        same    == [rows |-> rows, seq |-> seq, logged |-> <<>>,
                    published |-> <<>>, writes |-> 0]
        after(evaluation, path) ==
            LET request == <<routing_request(user_id, evaluation)>>
            IN  IF path.raised # ""
                THEN [rows |-> path.rows, seq |-> path.seq, raised |-> path.raised,
                      ret |-> <<>>,
                      logged |-> request \o path.logged, published |-> path.published]
                ELSE IF env.failAt = 2 + path.writes
                THEN [rows |-> path.rows, seq |-> path.seq, raised |-> "LoggingFailure",
                      ret |-> <<>>,
                      logged |-> request \o path.logged, published |-> path.published]
                ELSE [rows      |-> path.rows,
                      seq       |-> path.seq,
                      raised    |-> "",
                      ret       |-> path.ret,
                      logged    |-> request \o path.logged
                                        \o <<routing_result(user_id, path.ret[1])>>,
                      published |-> path.published]
    IN  IF env.failAt = 1
        THEN [rows |-> rows, seq |-> seq, raised |-> "LoggingFailure", ret |-> <<>>,
              logged |-> <<>>, published |-> <<>>]
        ELSE Only({Only({after(evaluation, path) :
                         path \in {IF dispatch(evaluation.level) = "macro"
                                   THEN run(o, rows, seq, evaluation, state, now, 2,
                                            env.failAt)
                                   ELSE IF dispatch(evaluation.level) = "rag"
                                   THEN run_rag_path(evaluation, state, env) @@ same
                                   ELSE run_template_path(evaluation, state) @@ same}}) :
                   evaluation \in {evaluate(state)}})

---------------------------------------------------------------------------
(* Inputs                                                                  *)

Times ==
    {[d |-> 1, h |-> 9, m |-> 0, s |-> 9, us |-> 0],
     [d |-> 1, h |-> 9, m |-> 0, s |-> 9, us |-> 500000],
     [d |-> 1, h |-> 9, m |-> 0, s |-> 10, us |-> 0]}

\* Statuses a caller passes to update_status: the four of the schema and one
\* the memory module also knows ("overdue"); the parameter is any str.
UpdateStatuses ==
    SyncStatuses \cup {"overdue"}

\* create_reminder calls: a due, tagged reminder as the care macros make them;
\* one with every optional argument left out; one whose tag contains the
\* separator.
Requests ==
    {[content |-> "hydrate", user_id |-> DEFAULT_USER_ID, severity |-> "high",
      due_time |-> [d |-> 1, h |-> 9, m |-> 0, s |-> 9, us |-> 500000], repeat_rule |-> NULL,
      tags |-> <<<<"a">>, <<"b">>>>],
     [content |-> "rest", user_id |-> "user_002", severity |-> "medium",
      due_time |-> NoTime, repeat_rule |-> NULL,
      tags |-> <<>>],
     [content |-> "call family", user_id |-> DEFAULT_USER_ID, severity |-> "low",
      due_time |-> [d |-> 1, h |-> 9, m |-> 0, s |-> 10, us |-> 0], repeat_rule |-> NULL,
      tags |-> <<<<"a", ",", "b">>>>]}

\* The wall clock when the rows are inserted.
CreateTime ==
    [d |-> 1, h |-> 9, m |-> 0, s |-> 9, us |-> 0]

\* The one kind of reminder the two-observer specifications create.
SyncRequest ==
    [content |-> "hydrate", user_id |-> DEFAULT_USER_ID, severity |-> "high",
     due_time |-> [d |-> 1, h |-> 9, m |-> 0, s |-> 9, us |-> 0], repeat_rule |-> NULL,
     tags |-> <<<<"a">>>>]

\* Messages of publishers outside the model.  Two carry o's own identity (a
\* second process with the same host name): a status event for a held id, and
\* one for an id o does not hold with a payload status outside the schema.
\* One is a stranger's status event for a held id.
ForgedMessages(o) ==
    {[event |-> "completed", source |-> o,
      reminder |-> [id |-> 1, status |-> "", user_id |-> ""]],
     [event |-> "ignored", source |-> o,
      reminder |-> [id |-> MaxRows + 1, status |-> "archived", user_id |-> ""]],
     [event |-> "completed", source |-> Stranger,
      reminder |-> [id |-> 1, status |-> "", user_id |-> ""]]}

\* Sync events of a stranger, for the held id 1 unless said otherwise: a
\* status event without a payload status; one whose payload status is
\* outside the schema; one without an id; a "created" event that carries a
\* status; a status event for an id no observer holds.
StrangerMessages ==
    {[event |-> "completed", source |-> Stranger,
      reminder |-> [id |-> 1, status |-> "", user_id |-> ""]],
     [event |-> "ignored", source |-> Stranger,
      reminder |-> [id |-> 1, status |-> "archived", user_id |-> ""]],
     [event |-> "completed", source |-> Stranger,
      reminder |-> [id |-> 0, status |-> "completed", user_id |-> ""]],
     [event |-> "created", source |-> Stranger,
      reminder |-> [id |-> 1, status |-> "completed", user_id |-> ""]],
     [event |-> "triggered", source |-> Stranger,
      reminder |-> [id |-> MaxRows + 1, status |-> "", user_id |-> ""]]}

\* Messages on the topic that are no sync event: bytes that are not UTF-8,
\* text that is not JSON, a JSON array, and objects (a stranger's and a
\* namesake's) whose reminder is a string.  The fields the handler cannot
\* read are left empty.
MalformedMessages(o) ==
    {[form |-> f, event |-> "", source |-> "",
      reminder |-> [id |-> 0, status |-> "", user_id |-> ""]] :
         f \in {"bytes", "text", "value"}}
    \cup {[form |-> "reminder", event |-> "completed", source |-> src,
           reminder |-> [id |-> 0, status |-> "", user_id |-> ""]] :
              src \in {Stranger, o}}

\* The wall clock of a later insert, after the due times of Requests.
LateCreateTime ==
    [d |-> 1, h |-> 9, m |-> 0, s |-> 11, us |-> 0]

\* The filters a caller passes to list_reminders ("" is None).
ListFilters ==
    {[status |-> st, user_id |-> u] :
         st \in {"", "pending"}, u \in {"", "user_002"}}

\* id lists a caller passes to get_reminders_by_ids.
IdLists ==
    {<<>>} \cup {<<i>> : i \in 1..(MaxRows + 1)} \cup {<<1, 2>>}

\* The demo snapshots of watch_backend.build_demo_state.
ScenarioA ==
    [user_id |-> <<"user_001">>, temperature |-> <<35>>, humidity |-> <<>>,
     warnings |-> <<"WHOT">>, heart_rate |-> <<115>>, steps |-> <<1800>>,
     sleep |-> <<55>>]

ScenarioB ==
    [user_id |-> <<"user_001">>, temperature |-> <<32>>, humidity |-> <<88>>,
     warnings |-> <<>>, heart_rate |-> <<95>>, steps |-> <<2000>>,
     sleep |-> <<55>>]

ScenarioC ==
    [user_id |-> <<"user_001">>, temperature |-> <<24>>, humidity |-> <<>>,
     warnings |-> <<>>, heart_rate |-> <<78>>, steps |-> <<2500>>,
     sleep |-> <<72>>]

\* Snapshots route is called with: the three demo snapshots; a high one that
\* fires no macro; a high one that fires the heat macro only, for another
\* user; a high one without user_id that fires the sleep macro only; a low
\* one with a warning and no step count; a high one after a night without
\* sleep; a low one before the first step of the day.
RouteSnapshots ==
    {ScenarioA, ScenarioB, ScenarioC,
     [user_id |-> <<"user_001">>, temperature |-> <<32>>, humidity |-> <<90>>,
      warnings |-> <<"WRAINB">>, heart_rate |-> <<115>>, steps |-> <<>>,
      sleep |-> <<>>],
     [user_id |-> <<"user_002">>, temperature |-> <<35>>, humidity |-> <<>>,
      warnings |-> <<>>, heart_rate |-> <<115>>, steps |-> <<>>,
      sleep |-> <<>>],
     [user_id |-> <<>>, temperature |-> <<>>, humidity |-> <<>>,
      warnings |-> <<"WRAINB">>, heart_rate |-> <<115>>, steps |-> <<>>,
      sleep |-> <<55>>],
     [user_id |-> <<"user_001">>, temperature |-> <<24>>, humidity |-> <<>>,
      warnings |-> <<"WFROST">>, heart_rate |-> <<78>>, steps |-> <<>>,
      sleep |-> <<72>>],
     [user_id |-> <<"user_001">>, temperature |-> <<35>>, humidity |-> <<>>,
      warnings |-> <<"WHOT">>, heart_rate |-> <<115>>, steps |-> <<1800>>,
      sleep |-> <<0>>],
     [user_id |-> <<"user_001">>, temperature |-> <<24>>, humidity |-> <<>>,
      warnings |-> <<>>, heart_rate |-> <<78>>, steps |-> <<0>>,
      sleep |-> <<72>>]}

\* Snapshots evaluate is scored on: every field absent, zero, at, next to and
\* away from each threshold of the table.
Snapshots ==
    [user_id     : {<<"user_001">>},
     temperature : {<<>>, <<-5>>, <<0>>, <<10>>, <<11>>, <<29>>, <<30>>, <<32>>, <<33>>, <<35>>},
     humidity    : {<<>>, <<0>>, <<88>>, <<90>>},
     warnings    : {<<>>, <<"WHOT">>, <<"WRAINB">>, <<"WHOT", "WRAINB">>, <<"WFROST">>},
     heart_rate  : {<<>>, <<0>>, <<50>>, <<51>>, <<95>>, <<110>>, <<115>>},
     steps       : {<<2500>>},
     sleep       : {<<>>, <<0>>, <<55>>, <<60>>, <<72>>}]

\* The clock of a route call: before 22:00 with a fraction of a second, and
\* 22:00 sharp.
RouteTimes ==
    {[d |-> 1, h |-> 21, m |-> 45, s |-> 0, us |-> 500000],
     [d |-> 1, h |-> 22, m |-> 0, s |-> 0, us |-> 0]}

\* What the collaborators do during a route call.
RouteEnvs ==
    {[failAt |-> 0, llm |-> "ok", retrieve |-> "docs"],
     [failAt |-> 0, llm |-> "error", retrieve |-> "empty"],
     [failAt |-> 0, llm |-> "ok", retrieve |-> "error"],
     [failAt |-> 1, llm |-> "ok", retrieve |-> "docs"],
     [failAt |-> 2, llm |-> "error", retrieve |-> "empty"],
     [failAt |-> 4, llm |-> "ok", retrieve |-> "docs"],
     [failAt |-> 6, llm |-> "ok", retrieve |-> "docs"]}

\* The threads of one process that call its manager.
Threads ==
    {"main", "worker"}

\* A thread outside every manager call.  Inside trigger_due_reminders todo
\* is the rest of the SELECT's rows the loop has still to update; inside
\* update_status, after the `with` block has committed, pub is the row read
\* back and the status, which the log call and publish are about to use.
Idle ==
    [todo |-> <<>>, pub |-> <<>>]

Boot ==
    [op |-> "boot", obs |-> "", arg |-> <<>>, raised |-> "", caught |-> "",
     outcome |-> "", ret |-> <<>>, logged |-> <<>>, published |-> <<>>]

---------------------------------------------------------------------------
(* Actions                                                                 *)

\* The effect e of a call of observer o: the table, the broker's queues (inb
\* is the queues once the call has taken its input) and the call record.
Effects(o, e, op, arg, inb) ==
    /\ store' = [store EXCEPT ![o] = e.rows]
    /\ inbox' = [p \in Obs |->
                    IF p \in subscribed THEN inb[p] \o e.published ELSE inb[p]]
    /\ sent' = IF subscribed = {} THEN sent ELSE sent + Len(e.published)
    /\ sent' <= MaxSent
    /\ last' = [op        |-> op,
                obs       |-> o,
                arg       |-> arg,
                raised    |-> e.raised,
                caught    |-> IF "caught" \in DOMAIN e THEN e.caught ELSE "",
                outcome   |-> IF "outcome" \in DOMAIN e THEN e.outcome ELSE "",
                ret       |-> e.ret,
                logged    |-> e.logged,
                published |-> e.published]
    /\ UNCHANGED <<available, subscribed, running>>

Create(o, req, now, memOk) ==
    /\ Len(store[o]) < MaxRows
    /\ LET e == create_reminder(o, store[o], sqlite_sequence[o], req, now, memOk)
       IN  /\ Effects(o, e, "create_reminder", req, inbox)
           /\ sqlite_sequence' = [sqlite_sequence EXCEPT ![o] = e.seq]

UpdateStatus(o, id, status, memOk) ==
    /\ LET e == update_status(o, store[o], id, status, "", DEFAULT_USER_ID, TRUE, memOk)
       IN  Effects(o, e, "update_status", [id |-> id, status |-> status], inbox)
    /\ UNCHANGED sqlite_sequence

TriggerDue(o, now, failAt) ==
    /\ LET e == trigger_due_reminders(o, store[o], now, failAt)
       IN  Effects(o, e, "trigger_due_reminders", now, inbox)
    /\ UNCHANGED sqlite_sequence

GetByIds(o, ids) ==
    /\ LET e == [rows |-> store[o], raised |-> "",
                 ret |-> get_reminders_by_ids(store[o], ids),
                 logged |-> <<>>, published |-> <<>>]
       IN  Effects(o, e, "get_reminders_by_ids", ids, inbox)
    /\ UNCHANGED sqlite_sequence

ListReminders(o, status, user_id) ==
    /\ LET e == [rows |-> store[o], raised |-> "",
                 ret |-> list_reminders(store[o], status, user_id),
                 logged |-> <<>>, published |-> <<>>]
       IN  Effects(o, e, "list_reminders", [status |-> status, user_id |-> user_id], inbox)
    /\ UNCHANGED sqlite_sequence

\* The broker hands o the message at the head of its queue.
Deliver(o, memOk) ==
    /\ inbox[o] # <<>>
    /\ LET msg == Head(inbox[o])
           e   == receive(o, store[o], msg, memOk)
       IN  Effects(o, e, "on_message", msg,
                   [inbox EXCEPT ![o] = Tail(inbox[o])])
    /\ UNCHANGED sqlite_sequence

\* The broker hands o a message of another publisher on the topic.
Forged(o, msg, memOk) ==
    /\ LET e == receive(o, store[o], msg, memOk)
       IN  Effects(o, e, "on_message", msg, inbox)
    /\ UNCHANGED sqlite_sequence

\* trigger_due_reminders up to the end of its `with` block: the SELECT.
BeginSweep(o, t, now) ==
    /\ running[t] = Idle
    /\ running' = [running EXCEPT ![t].todo = due_rows(store[o], now)]
    /\ last' = [Boot EXCEPT !.op = "select_due", !.obs = o, !.arg = now]
    /\ UNCHANGED <<store, sqlite_sequence, available, subscribed, inbox, sent>>

\* update_status up to the end of its `with` block: the UPDATE and the
\* SELECT, committed.  by is "sweep" or "caller".
Commit(o, t, id, status, user_id, by, todo) ==
    \E rows2 \in {UpdateRows(store[o], id, status)} :
    \E found \in {SelectById(rows2, id)} :
        /\ store' = [store EXCEPT ![o] = rows2]
        /\ running' = [running EXCEPT
                           ![t] = IF found = <<>>
                                  THEN Idle
                                  ELSE [todo |-> todo,
                                        pub  |-> <<[row |-> found[1], status |-> status,
                                                    user_id |-> user_id]>>]]
        /\ last' = [Boot EXCEPT !.op = "commit", !.obs = o,
                                !.arg = [id |-> id, status |-> status, by |-> by],
                                !.raised = IF found = <<>> THEN "TypeError" ELSE ""]
        /\ UNCHANGED <<sqlite_sequence, available, subscribed, inbox, sent>>

\* A caller's update_status, first half.
BeginUpdate(o, t, id, status) ==
    /\ running[t] = Idle
    /\ Commit(o, t, id, status, DEFAULT_USER_ID, "caller", <<>>)

\* The sweep's loop calls update_status for its next row, first half.
SweepCommit(o, t) ==
    /\ running[t].todo # <<>>
    /\ running[t].pub = <<>>
    /\ Commit(o, t, Head(running[t].todo).id, "triggered",
              Head(running[t].todo).user_id, "sweep", Tail(running[t].todo))

\* update_status, second half: the log call, publish and the return.  A log
\* call that raises ends the whole call, the sweep's loop included.  The
\* broker takes at most one message per thread.
Publish(o, t, memOk) ==
    /\ running[t].pub # <<>>
    /\ sent < Cardinality(Threads)
    /\ \E p \in {running[t].pub[1]} :
       \E msgs \in {IF memOk THEN publish(o, p.row, p.status) ELSE <<>>} :
           /\ inbox' = [q \in Obs |->
                           IF q \in subscribed THEN inbox[q] \o msgs ELSE inbox[q]]
           /\ sent' = IF subscribed = {} THEN sent ELSE sent + Len(msgs)
           /\ last' = [Boot EXCEPT
                           !.op = "publish", !.obs = o,
                           !.arg = [id |-> p.row.id, status |-> p.status],
                           !.raised = IF memOk THEN "" ELSE "LoggingFailure",
                           !.ret = IF memOk THEN <<p.row>> ELSE <<>>,
                           !.logged = IF memOk
                                      THEN <<log_reminder_event(p.user_id, p.row.id,
                                                                p.status, "")>>
                                      ELSE <<>>,
                           !.published = msgs]
    /\ running' = [running EXCEPT
                       ![t] = IF memOk THEN [running[t] EXCEPT !.pub = <<>>] ELSE Idle]
    /\ UNCHANGED <<store, sqlite_sequence, available, subscribed>>

\* ReminderSync.start: the client connects and _on_connect subscribes.
Start(o) ==
    /\ o \notin subscribed
    /\ subscribed' = subscribed \cup {o}
    /\ last' = [Boot EXCEPT !.op = "start", !.obs = o]
    /\ UNCHANGED <<store, sqlite_sequence, available, inbox, sent, running>>

Evaluate(o, state) ==
    /\ LET e == [rows |-> store[o], raised |-> "", ret |-> <<evaluate(state)>>,
                 logged |-> <<>>, published |-> <<>>]
       IN  Effects(o, e, "evaluate", state, inbox)
    /\ UNCHANGED sqlite_sequence

Route(o, state, now, env) ==
    /\ Len(store[o]) < MaxRows
    /\ \E e \in {route(o, store[o], sqlite_sequence[o], state, now, env)} :
           /\ Effects(o, e, "route", [state |-> state, now |-> now, env |-> env], inbox)
           /\ sqlite_sequence' = [sqlite_sequence EXCEPT ![o] = e.seq]

---------------------------------------------------------------------------
(* SpecStore: one observer's store under every kind of call, no subscriber *)

\* hostA's publisher has connected or not; hostB's, which makes no call here,
\* is in the other case.
InitStore ==
    /\ store = [o \in Obs |-> <<>>]
    /\ sqlite_sequence = [o \in Obs |-> 0]
    /\ available \in {[o \in Obs |-> (o = "hostA") = b] : b \in BOOLEAN}
    /\ subscribed = {}
    /\ inbox = [o \in Obs |-> <<>>]
    /\ sent = 0
    /\ last = Boot
    /\ running = [t \in Threads |-> Idle]

NextStore ==
    \/ \E req \in Requests, memOk \in BOOLEAN :
           Create("hostA", req, CreateTime, memOk)
    \/ \E id \in 1..(MaxRows + 1), status \in UpdateStatuses, memOk \in BOOLEAN :
           UpdateStatus("hostA", id, status, memOk)
    \/ \E now \in Times, failAt \in 0..MaxRows :
           TriggerDue("hostA", now, failAt)
    \/ \E ids \in IdLists :
           GetByIds("hostA", ids)

SpecStore ==
    InitStore /\ [][NextStore]_vars

---------------------------------------------------------------------------
(* SpecList: one observer's store, filled at two moments, completed and    *)
(* listed                                                                  *)

NextList ==
    \/ \E req \in Requests, now \in {CreateTime, LateCreateTime} :
           Create("hostA", req, now, TRUE)
    \/ \E id \in 1..MaxRows :
           UpdateStatus("hostA", id, "completed", TRUE)
    \/ \E f \in ListFilters :
           ListReminders("hostA", f.status, f.user_id)

SpecList ==
    InitStore /\ [][NextList]_vars

---------------------------------------------------------------------------
(* SpecSync: two observers with equal stores on one topic.  hostA's        *)
(* application calls its manager; hostB only listens.  The memory          *)
(* collaborator may fail, and a namesake may publish on the topic.         *)

SharedRows ==
    <<NewRow(1, SyncRequest, CreateTime)>>

InitSync ==
    /\ store = [o \in Obs |-> SharedRows]
    /\ sqlite_sequence = [o \in Obs |-> Len(SharedRows)]
    /\ available = [o \in Obs |-> TRUE]
    /\ subscribed = Obs
    /\ inbox = [o \in Obs |-> <<>>]
    /\ sent = 0
    /\ last = Boot
    /\ running = [t \in Threads |-> Idle]

\* Statuses the callers of the two-observer specifications pass.
SyncUpdateStatuses ==
    {"completed", "overdue"}

\* The sweep's clock in the two-observer specifications: after SyncRequest's
\* due time.
SweepTime ==
    [d |-> 1, h |-> 9, m |-> 0, s |-> 10, us |-> 0]

NextSync ==
    \/ \E memOk \in BOOLEAN :
           Create("hostA", SyncRequest, CreateTime, memOk)
    \/ \E id \in 1..(MaxRows + 1), status \in SyncUpdateStatuses, memOk \in BOOLEAN :
           UpdateStatus("hostA", id, status, memOk)
    \/ \E failAt \in 0..1 :
           TriggerDue("hostA", SweepTime, failAt)
    \/ \E o \in Obs, memOk \in BOOLEAN :
           Deliver(o, memOk)
    \/ \E o \in Obs, memOk \in BOOLEAN : \E msg \in ForgedMessages(o) :
           Forged(o, msg, memOk)

SpecSync ==
    InitSync /\ [][NextSync]_vars

---------------------------------------------------------------------------
(* SpecInbound: the two observers of SpecSync, hostA's application calling *)
(* its manager, and on the topic a stranger's sync events and messages     *)
(* that are no sync event                                                  *)

NextInbound ==
    \/ \E memOk \in BOOLEAN :
           Create("hostA", SyncRequest, CreateTime, memOk)
    \/ \E id \in 1..MaxRows :
           UpdateStatus("hostA", id, "completed", TRUE)
    \/ TriggerDue("hostA", SweepTime, 0)
    \/ \E o \in Obs, memOk \in BOOLEAN :
           Deliver(o, memOk)
    \/ \E o \in Obs, memOk \in BOOLEAN :
           \E msg \in StrangerMessages \cup MalformedMessages(o) :
               Forged(o, msg, memOk)

SpecInbound ==
    InitSync /\ [][NextInbound]_vars

---------------------------------------------------------------------------
(* SpecCollide: two observers, each with its own table and its own ids.    *)
(* Each may create reminders before its listener starts; a message         *)
(* published while nobody listens is lost (retain=False).                  *)

InitCollide ==
    /\ store = [o \in Obs |-> <<>>]
    /\ sqlite_sequence = [o \in Obs |-> 0]
    /\ available = [o \in Obs |-> TRUE]
    /\ subscribed = {}
    /\ inbox = [o \in Obs |-> <<>>]
    /\ sent = 0
    /\ last = Boot
    /\ running = [t \in Threads |-> Idle]

\* What each observer's application creates: hostA's user is reminded to
\* hydrate, hostB's to rest.
OwnRequest(o) ==
    CHOOSE req \in Requests :
        req.content = (IF o = "hostA" THEN "hydrate" ELSE "rest")

NextCollide ==
    \/ \E o \in Obs :
           Create(o, OwnRequest(o), CreateTime, TRUE)
    \/ \E o \in Obs :
           Start(o)
    \/ \E o \in Obs, id \in 1..MaxRows :
           UpdateStatus(o, id, "completed", TRUE)
    \/ \E o \in Obs :
           Deliver(o, TRUE)

SpecCollide ==
    InitCollide /\ [][NextCollide]_vars

---------------------------------------------------------------------------
(* SpecSweepRace: hostA's main thread sweeps, statement by statement,      *)
(* while the MQTT client's thread (loop_start) runs the sync handler       *)

NextSweepRace ==
    \/ BeginSweep("hostA", "main", SweepTime)
    \/ SweepCommit("hostA", "main")
    \/ \E memOk \in BOOLEAN :
           Publish("hostA", "main", memOk)
    \/ \E memOk \in BOOLEAN :
           Create("hostA", SyncRequest, CreateTime, memOk)
    \/ \E msg \in StrangerMessages, memOk \in BOOLEAN :
           Forged("hostA", msg, memOk)

SpecSweepRace ==
    InitSync /\ [][NextSweepRace]_vars

---------------------------------------------------------------------------
(* SpecThreads: two threads of hostA's process call its manager, statement *)
(* by statement, with memory logs that succeed; hostB is subscribed and    *)
(* leaves its queue unread                                                 *)

NextThreads ==
    \/ \E t \in Threads :
           BeginSweep("hostA", t, SweepTime)
    \/ \E t \in Threads :
           SweepCommit("hostA", t)
    \/ \E t \in Threads, id \in 1..MaxRows, status \in {"completed", "ignored"} :
           BeginUpdate("hostA", t, id, status)
    \/ \E t \in Threads :
           Publish("hostA", t, TRUE)

SpecThreads ==
    InitSync /\ [][NextThreads]_vars

---------------------------------------------------------------------------
(* SpecReplica: the two observers alone on the topic, both calling their   *)
(* managers with statuses of the schema, every log call returning and      *)
(* every message delivered in order                                        *)

NextReplica ==
    \/ \E o \in Obs :
           Create(o, SyncRequest, CreateTime, TRUE)
    \/ \E o \in Obs, id \in 1..MaxRows, status \in {"completed", "ignored"} :
           UpdateStatus(o, id, status, TRUE)
    \/ \E o \in Obs :
           TriggerDue(o, SweepTime, 0)
    \/ \E o \in Obs :
           Deliver(o, TRUE)

SpecReplica ==
    InitSync /\ [][NextReplica]_vars

---------------------------------------------------------------------------
(* SpecScore: evaluate on every snapshot of the scoring grid, one snapshot  *)
(* per behaviour                                                           *)

NextScore ==
    \E state \in Snapshots :
        /\ last = Boot
        /\ Evaluate("hostA", state)

SpecScore ==
    InitStore /\ [][NextScore]_vars

---------------------------------------------------------------------------
(* SpecRoute: one observer's router, called with the route snapshots under *)
(* every behaviour of its collaborators, and evaluate in between           *)

NextRoute ==
    \/ \E state \in RouteSnapshots :
           Evaluate("hostA", state)
    \/ \E state \in RouteSnapshots, now \in RouteTimes, env \in RouteEnvs :
           Route("hostA", state, now, env)

SpecRoute ==
    InitStore /\ [][NextRoute]_vars

---------------------------------------------------------------------------
(* Properties                                                              *)

Ids(rows) ==
    {rows[i].id : i \in DOMAIN rows}

RowOf(rows, id) ==
    rows[CHOOSE i \in DOMAIN rows : rows[i].id = id]

\* The status a sync event asks for: reminder.status if present, else event.
CarriedStatus(msg) ==
    IF msg.reminder.status # "" THEN msg.reminder.status ELSE msg.event

LocalOps ==
    {"create_reminder", "update_status", "trigger_due_reminders"}

\* C1  Anti-echo: a message whose source is the receiver's own identity
\* leaves the receiver's table (and every other table) exactly as it was,
\* whatever event, id and status it carries.
AntiEcho ==
    [][(last'.op = "on_message" /\ last'.arg.source = last'.obs)
          => (store' = store /\ sqlite_sequence' = sqlite_sequence)]_vars

\* C1 witness: the handler has discarded an own-identity status event for a
\* held reminder whose stored status differs from the one the event carries.
EchoOfAnotherStatus ==
    /\ last.op = "on_message"
    /\ last.arg.source = last.obs
    /\ last.arg.event \in SyncStatuses
    /\ last.arg.reminder.id \in Ids(store[last.obs])
    /\ RowOf(store[last.obs], last.arg.reminder.id).status # CarriedStatus(last.arg)

\* C2  Loop suppression: handling a received message never publishes; the
\* messages the broker takes in a step are exactly those the step's call
\* published, each stamped with the caller's identity, each the payload of a
\* different row the local create / update_status / sweep has just written.
LoopSuppression ==
    [][/\ last'.op = "on_message" => last'.published = <<>>
       /\ sent' = sent + Len(last'.published)
       /\ \A p \in Obs : \E k \in {0, 1} :
              inbox'[p] = SubSeq(inbox[p], k + 1, Len(inbox[p])) \o last'.published
       /\ last'.published # <<>> => last'.op \in LocalOps
       /\ \A i \in DOMAIN last'.published :
              /\ last'.published[i].source = last'.obs
              /\ last'.published[i].reminder.id \in Ids(store'[last'.obs])
              /\ last'.published[i].reminder =
                     to_payload(RowOf(store'[last'.obs], last'.published[i].reminder.id))
              /\ \A j \in DOMAIN last'.published :
                     last'.published[j].reminder.id = last'.published[i].reminder.id
                         => j = i]_vars

\* C2 witness: hostB has applied a status event that hostA published.
RemoteEventApplied ==
    /\ last.op = "on_message"
    /\ last.obs = "hostB"
    /\ last.arg.source = "hostA"
    /\ last.outcome = "applied"
    /\ sent > 0

\* Every published message has been handed to every subscriber's handler.
Quiescent ==
    \A o \in Obs : inbox[o] = <<>>

\* The ids a store holds, each with its status.
Replica(o) ==
    {<<store[o][i].id, store[o][i].status>> : i \in DOMAIN store[o]}

\* C3  Eventual consistency, as the state every fair run would have to end
\* in: once nothing is in flight, the two stores hold the same reminder ids
\* with the same status for each.
EventualConsistency ==
    Quiescent => Replica("hostA") = Replica("hostB")

\* C4  Last-write-wins: update_status on a held id returns the reminder and
\* leaves its status equal to the one passed, whatever it was before.
LastWriteWins ==
    (last.op = "update_status" /\ last.arg.id \in Ids(store[last.obs]))
        => /\ last.raised = ""
           /\ Len(last.ret) = 1
           /\ last.ret[1].status = last.arg.status
           /\ RowOf(store[last.obs], last.arg.id).status = last.arg.status

\* C5  update_status on an id the store does not hold raises to the caller,
\* returns nothing, leaves every row as it was, logs nothing and publishes
\* nothing.
NotFoundSurfaced ==
    [][(last'.op = "update_status" /\ last'.arg.id \notin Ids(store[last'.obs]))
          => /\ last'.raised # ""
             /\ last'.ret = <<>>
             /\ store' = store
             /\ last'.logged = <<>>
             /\ last'.published = <<>>
             /\ inbox' = inbox]_vars

\* C5 witness: update_status has raised on an unknown id while the store
\* holds reminders.
UnknownIdRejected ==
    /\ last.op = "update_status"
    /\ last.arg.id \notin Ids(store[last.obs])
    /\ last.raised = "TypeError"
    /\ store[last.obs] # <<>>

\* The rows a sweep at `now` has to move: pending, with a due time that is
\* not after `now` on the clock.
DueAt(rows, now) ==
    {i \in DOMAIN rows : /\ rows[i].status = "pending"
                         /\ rows[i].due_time # NULL
                         /\ TimeLeq(fromisoformat(rows[i].due_time), now)}

\* C6  trigger_due_reminders(now) moves exactly the pending rows due at or
\* before now to triggered, returns exactly those, and leaves the rest alone.
SweepExact ==
    [][last'.op = "trigger_due_reminders"
          => LET o   == last'.obs
                 due == DueAt(store[o], last'.arg)
             IN  /\ last'.raised = ""
                 /\ {last'.ret[i].id : i \in DOMAIN last'.ret}
                        = {store[o][i].id : i \in due}
                 /\ Len(last'.ret) = Cardinality(due)
                 /\ store'[o] = [i \in DOMAIN store[o] |->
                                    IF i \in due
                                    THEN [store[o][i] EXCEPT !.status = "triggered"]
                                    ELSE store[o][i]]]_vars

\* C7  Idempotent sweep: a second trigger_due_reminders with the same now,
\* right after the first, returns nothing and changes no row.
SweepIdempotent ==
    [][(/\ last.op = "trigger_due_reminders"
        /\ last'.op = "trigger_due_reminders"
        /\ last'.obs = last.obs
        /\ last'.arg = last.arg)
          => (last'.ret = <<>> /\ last'.raised = "" /\ store' = store)]_vars

\* No two rows of a store share an id.
UniqueIds ==
    \A o \in Obs : \A i, j \in DOMAIN store[o] :
        store[o][i].id = store[o][j].id => i = j

\* C8  create_reminder inserts one pending row whose id no row has and
\* AUTOINCREMENT has never handed out, and changes no other row; ids stay
\* unique in every state.
FreshIds ==
    /\ []UniqueIds
    /\ [][last'.op = "create_reminder"
             => LET o == last'.obs
                    n == Len(store[o])
                IN  /\ Len(store'[o]) = n + 1
                    /\ SubSeq(store'[o], 1, n) = store[o]
                    /\ store'[o][n + 1].status = "pending"
                    /\ store'[o][n + 1].id \notin Ids(store[o])
                    /\ store'[o][n + 1].id > sqlite_sequence[o]
                    /\ sqlite_sequence'[o] = store'[o][n + 1].id]_vars

\* C8 witness: a second reminder has been created in a store.
SecondCreate ==
    /\ last.op = "create_reminder"
    /\ Len(store[last.obs]) = 2
    /\ store[last.obs][2].status = "pending"

\* C9  Round trip: get_reminders_by_ids([id]) right after the create that
\* returned id yields one record with the created content, severity, due
\* time and tag set; get_reminders_by_ids([]) yields [] and raises nothing.
RoundTrip ==
    [][/\ (/\ last.op = "create_reminder"
           /\ last.raised = ""
           /\ last'.op = "get_reminders_by_ids"
           /\ last'.obs = last.obs
           /\ last'.arg = <<last.ret[1].id>>)
          => /\ Len(last'.ret) = 1
             /\ last'.ret[1].content = last.arg.content
             /\ last'.ret[1].severity = last.arg.severity
             /\ fromisoformat(last'.ret[1].due_time) = last.arg.due_time
             /\ Range(tags_of(last'.ret[1])) = Range(last.arg.tags)
       /\ (last'.op = "get_reminders_by_ids" /\ last'.arg = <<>>)
          => (last'.ret = <<>> /\ last'.raised = "")]_vars

\* C10  With the publisher available, a create that returns has published
\* exactly one "created" event, an update_status that returns exactly one
\* event named by the new status, and a sweep one "triggered" event per
\* update_status call of it that returned; each carries the row as stored
\* after the mutation and the caller's identity as source.
PublishOnMutation ==
    (last.op \in LocalOps /\ available[last.obs])
        => LET o    == last.obs
               done == IF last.op = "trigger_due_reminders"
                       THEN [i \in DOMAIN last.logged |-> last.logged[i].reminder_id]
                       ELSE [i \in DOMAIN last.ret |-> last.ret[i].id]
               name == IF last.op = "create_reminder" THEN "created"
                       ELSE IF last.op = "update_status" THEN last.arg.status
                       ELSE "triggered"
           IN  /\ last.raised = "" => Len(done) = Len(last.ret)
               /\ last.published =
                      [i \in DOMAIN done |->
                          [event    |-> name,
                           reminder |-> to_payload(RowOf(store[o], done[i])),
                           source   |-> o]]
               /\ last.op # "create_reminder" =>
                      \A i \in DOMAIN last.published :
                          last.published[i].reminder.status = name

\* C10 witness: a sweep has moved two reminders and published both.
SweepPublishedTwo ==
    /\ last.op = "trigger_due_reminders"
    /\ available[last.obs]
    /\ last.raised = ""
    /\ Len(last.ret) = 2
    /\ Len(last.published) = 2

\* The same call made through the other observer's publisher, on the same
\* table and with the memory collaborator behaving the same way.
Twin(o, rows, seq, call) ==
    LET other == CHOOSE p \in Obs : p # o
        memOk == call.raised # "LoggingFailure"
    IN  IF call.op = "create_reminder"
        THEN create_reminder(other, rows, seq, call.arg, CreateTime, memOk)
        ELSE IF call.op = "update_status"
        THEN update_status(other, rows, call.arg.id, call.arg.status, "",
                           DEFAULT_USER_ID, TRUE, memOk)
        ELSE trigger_due_reminders(other, rows, call.arg,
                                   IF call.raised = "" THEN 0 ELSE Len(call.logged) + 1)

\* C11  A publisher that could not connect stays unavailable; with it, every
\* create / update_status / sweep publishes nothing, and returns, raises,
\* logs and writes to the table exactly what the same call does through a
\* publisher that is available (which does publish what the call wrote).
OfflinePublisher ==
    /\ [][available' = available]_vars
    /\ [][last'.op \in LocalOps
             => \A twin \in {Twin(last'.obs, store[last'.obs],
                                     sqlite_sequence[last'.obs], last')} :
                LET o    == last'.obs
                    off  == IF available[o] THEN twin ELSE last'
                    on   == IF available[o] THEN last' ELSE twin
                IN  /\ twin.rows = store'[o]
                    /\ twin.ret = last'.ret
                    /\ twin.raised = last'.raised
                    /\ twin.logged = last'.logged
                    /\ off.published = <<>>
                    /\ Len(on.published) = Len(on.logged)]_vars

\* C11 witness: with the publisher unavailable, update_status has returned
\* the reminder with its new status, and nothing was published.
OfflineUpdate ==
    /\ last.op = "update_status"
    /\ ~available[last.obs]
    /\ last.raised = ""
    /\ Len(last.ret) = 1
    /\ RowOf(store[last.obs], last.arg.id).status = "completed"
    /\ last.published = <<>>

\* The level of the snapshot a route call was given.
RoutedLevel ==
    evaluate(last.arg.state).level

\* C12  Every route call returns a result whose route is macro exactly when
\* the snapshot's level is high, rag exactly when medium, template exactly
\* when low, and whose risk_level is that level.
RouteByLevel ==
    last.op = "route"
        => /\ last.raised = ""
           /\ Len(last.ret) = 1
           /\ (last.ret[1].route = "macro") <=> (RoutedLevel = "high")
           /\ (last.ret[1].route = "rag") <=> (RoutedLevel = "medium")
           /\ (last.ret[1].route = "template") <=> (RoutedLevel = "low")
           /\ last.ret[1].risk_level = RoutedLevel

\* C13  A route call on a medium snapshot whose text generator was invoked
\* and failed returns route "rag" with the fallback message and, as
\* evidence, the prompt payload that was built; nothing is raised.
AdviceFallback ==
    (/\ last.op = "route"
     /\ RoutedLevel = "medium"
     /\ last.arg.env.llm = "error"
     /\ last.arg.env.failAt # 1
     /\ last.arg.env.retrieve # "error")
        => /\ last.raised = ""
           /\ Len(last.ret) = 1
           /\ last.ret[1].route = "rag"
           /\ last.ret[1].message = FallbackMessage
           /\ last.ret[1].evidence = rag_payload(last.arg.state, last.arg.env)

\* C14  Every route call returns a RouteResult, also when the
\* routing_request or the routing_result write of the memory collaborator
\* raises.
RouteAlwaysReturns ==
    (last.op = "route" /\ last.arg.env.retrieve # "error")
        => (last.raised = "" /\ Len(last.ret) = 1)

\* C15  A create, or an update_status on a held id, returns the reminder,
\* keeps its write and (publisher available) publishes its event whether or
\* not the memory collaborator's lifecycle write raises.
LoggingSwallowed ==
    (/\ last.op \in {"create_reminder", "update_status"}
     /\ last.op = "update_status" => last.arg.id \in Ids(store[last.obs]))
        => /\ last.raised = ""
           /\ Len(last.ret) = 1
           /\ last.ret[1].id \in Ids(store[last.obs])
           /\ available[last.obs] => Len(last.published) = 1

\* The score of the table, every field that is present scored.
TableScore(state) ==
    LET t == state.temperature
        h == state.humidity
        r == state.heart_rate
        z == state.sleep
    IN  (IF t # <<>> /\ t[1] >= 33 THEN 4
         ELSE IF t # <<>> /\ t[1] >= 30 THEN 2
         ELSE IF t # <<>> /\ t[1] <= 10 THEN 2
         ELSE 0)
        + (IF h # <<>> /\ h[1] >= 90 THEN 1 ELSE 0)
        + (IF {"WHOT", "WRAINB"} \cap Range(state.warnings) # {} THEN 3 ELSE 0)
        + (IF r # <<>> /\ r[1] >= 110 THEN 3
           ELSE IF r # <<>> /\ r[1] <= 50 THEN 2
           ELSE 0)
        + (IF z # <<>> /\ z[1] < 60 THEN 2 ELSE 0)

\* C16  evaluate's score is the sum of the table's contributions: one
\* temperature band, humidity, one for the warnings, one heart-rate band,
\* sleep; it lies between 0 and 13.
ScoreTable ==
    last.op = "evaluate"
        => /\ last.ret[1].score = TableScore(last.arg)
           /\ last.ret[1].score \in 0..13

\* C17  The level is high exactly when the score is at least 7, medium
\* exactly when it is 4, 5 or 6, and low exactly when it is at most 3.
LevelThresholds ==
    last.op = "evaluate"
        => LET score == last.ret[1].score
               level == last.ret[1].level
           IN  /\ level \in {"high", "medium", "low"}
               /\ (level = "high") <=> (score >= 7)
               /\ (level = "medium") <=> (score >= 4 /\ score <= 6)
               /\ (level = "low") <=> (score <= 3)

\* C17 witness: evaluate has returned the score 7, the lowest high one.
ScoreSevenIsHigh ==
    /\ last.op = "evaluate"
    /\ last.ret[1].score = 7
    /\ last.ret[1].level = "high"

ScenarioBAsStated ==
    /\ (last.op = "evaluate" /\ last.arg = ScenarioB)
           => (last.ret[1].score = 5 /\ last.ret[1].level = "medium")
    /\ (last.op = "route" /\ last.arg.state = ScenarioB)
           => (last.raised = "" /\ Len(last.ret) = 1 /\ last.ret[1].route = "rag")

\* C20  A route call on a high snapshot that fires both macros appends
\* exactly four reminders (the two heat ones, then the two sleep ones),
\* returns their ids in that order, and its message is the heat advisory, a
\* newline, the sleep advisory.
BothMacros ==
    [][(/\ last'.op = "route"
        /\ evaluate(last'.arg.state).level = "high"
        /\ heat_fires(last'.arg.state)
        /\ sleep_fires(last'.arg.state))
          => LET o == last'.obs
                 n == Len(store[o])
             IN  /\ last'.raised = ""
                 /\ Len(last'.ret) = 1
                 /\ Len(store'[o]) = n + 4
                 /\ SubSeq(store'[o], 1, n) = store[o]
                 /\ [i \in 1..4 |-> store'[o][n + i].content]
                        = <<"hydrate", "contact family",
                            "wind down before 22:00", "log tonight's sleep">>
                 /\ last'.ret[1].reminder_ids = [i \in 1..4 |-> store'[o][n + i].id]
                 /\ last'.ret[1].message = HeatAdvisory \o <<"\n">> \o SleepAdvisory]_vars

\* The reminders a step appended to o's table.
Appended(o) ==
    SubSeq(store'[o], Len(store[o]) + 1, Len(store'[o]))

\* A route step that reached the macro path: the snapshot is high and the
\* routing_request write returned.
MacroRun ==
    /\ last'.op = "route"
    /\ evaluate(last'.arg.state).level = "high"
    /\ last'.arg.env.failAt # 1

\* C21  On the macro path the heat reminders are created exactly when the
\* temperature is at least 33 or WHOT is among the warnings, and then they
\* are exactly two pending reminders of the snapshot's user: hydration, due
\* 30 minutes after now, and family contact, due 60 minutes after now, both
\* of severity high, tagged heat, hydration and family, safety.
HeatMacro ==
    [][MacroRun
          => LET state  == last'.arg.state
                 now    == last'.arg.now
                 stated == \/ state.temperature # <<>> /\ state.temperature[1] >= 33
                           \/ "WHOT" \in Range(state.warnings)
             IN  \A heat \in {SelectSeq(Appended(last'.obs),
                                        LAMBDA r : r.content \in {"hydrate", "contact family"})} :
                     /\ (heat # <<>>) <=> stated
                     /\ stated
                          => /\ Len(heat) = 2
                             /\ \A i \in 1..2 :
                                    /\ heat[i].status = "pending"
                                    /\ heat[i].user_id = user_id_of(state)
                                    /\ heat[i].severity = "high"
                             /\ heat[1].content = "hydrate"
                             /\ fromisoformat(heat[1].due_time) = plus_minutes(now, 30)
                             /\ Range(tags_of(heat[1]))
                                    = {<<"h", "e", "a", "t">>,
                                       <<"h", "y", "d", "r", "a", "t", "i", "o", "n">>}
                             /\ heat[2].content = "contact family"
                             /\ fromisoformat(heat[2].due_time) = plus_minutes(now, 60)
                             /\ Range(tags_of(heat[2]))
                                    = {<<"f", "a", "m", "i", "l", "y">>,
                                       <<"s", "a", "f", "e", "t", "y">>}]_vars

\* C22  On the macro path the sleep reminders are created exactly when sleep
\* is present and below 6 hours, and then they are exactly two pending
\* reminders: wind-down, severity medium, due at today's 22:00 when now is
\* before 22:00 and at tomorrow's otherwise (after now, at most 24 hours
\* after), and sleep logging, severity low, due 12 hours after now.
SleepMacro ==
    [][MacroRun
          => LET state   == last'.arg.state
                 now     == last'.arg.now
                 stated  == state.sleep # <<>> /\ state.sleep[1] < 60
                 evening == [d  |-> IF now.h < 22 THEN now.d ELSE now.d + 1,
                             h  |-> 22, m |-> 0, s |-> 0, us |-> 0]
             IN  \A made \in {SelectSeq(Appended(last'.obs),
                                        LAMBDA r : r.content \in {"wind down before 22:00",
                                                                  "log tonight's sleep"})} :
                     /\ (made # <<>>) <=> stated
                     /\ stated
                          => /\ Len(made) = 2
                             /\ \A i \in 1..2 :
                                    /\ made[i].status = "pending"
                                    /\ made[i].user_id = user_id_of(state)
                             /\ made[1].content = "wind down before 22:00"
                             /\ made[1].severity = "medium"
                             /\ fromisoformat(made[1].due_time) = evening
                             /\ ~TimeLeq(evening, now)
                             /\ TimeLeq(evening, plus_minutes(now, 24 * 60))
                             /\ made[2].content = "log tonight's sleep"
                             /\ made[2].severity = "low"
                             /\ fromisoformat(made[2].due_time)
                                    = plus_minutes(now, 12 * 60)]_vars

\* C23  On a high snapshot that fires no macro the macro path returns route
\* "macro" with the generic caution alone and no reminder ids, and creates no
\* reminder; in every macro-path run the number of reminders created is twice
\* the number of macros fired.
MacroCount ==
    [][MacroRun
          => LET state == last'.arg.state
                 o     == last'.obs
                 fired == (IF heat_fires(state) THEN 1 ELSE 0)
                              + (IF sleep_fires(state) THEN 1 ELSE 0)
             IN  /\ Len(Appended(o)) = 2 * fired
                 /\ SubSeq(store'[o], 1, Len(store[o])) = store[o]
                 /\ fired = 0
                      => \A path \in {run(o, store[o], sqlite_sequence[o], evaluate(state),
                                          state, last'.arg.now, 2, last'.arg.env.failAt)} :
                             /\ path.raised = ""
                             /\ path.ret = <<[route        |-> "macro",
                                              risk_level   |-> "high",
                                              message      |-> GenericCaution,
                                              reminder_ids |-> <<>>]>>
                             /\ store'[o] = store[o]]_vars

\* C24  A route call on a low snapshot that returns carries the base
\* sentence when the snapshot has no warning and the caution sentence
\* otherwise, followed by the activity clause exactly when steps is present
\* and below 3000; its evidence is the evaluation's reasons.
TemplateMessage ==
    (/\ last.op = "route"
     /\ RoutedLevel = "low"
     /\ last.raised = "")
        => LET state    == last.arg.state
               sentence == IF state.warnings = <<>>
                           THEN <<"steady today, keep a regular routine and hydrate">>
                           ELSE <<"slight weather fluctuation, watch the reminders">>
               clause   == IF state.steps # <<>> /\ state.steps[1] < 3000
                           THEN <<" moderate activity helps">>
                           ELSE <<>>
           IN  /\ Len(last.ret) = 1
               /\ last.ret[1].route = "template"
               /\ last.ret[1].message = sentence \o clause
               /\ last.ret[1].evidence = [reasons |-> evaluate(state).reasons]

\* A step in which the handler received a well-formed sync event.
SyncEventStep ==
    /\ last'.op = "on_message"
    /\ "form" \notin DOMAIN last'.arg

\* C25  A sync event of another origin whose event is completed, ignored,
\* pending or triggered and whose reminder id is held sets that reminder's
\* status to the payload's status when it carries one and to the event name
\* otherwise; no other reminder and no other table changes.
SyncApplies ==
    [][(/\ SyncEventStep
        /\ last'.arg.source # last'.obs
        /\ last'.arg.event \in {"completed", "ignored", "pending", "triggered"}
        /\ last'.arg.reminder.id \in Ids(store[last'.obs]))
          => LET o      == last'.obs
                 msg    == last'.arg
                 status == IF msg.reminder.status # "" THEN msg.reminder.status
                           ELSE msg.event
             IN  /\ Len(store'[o]) = Len(store[o])
                 /\ \A i \in DOMAIN store[o] :
                        store'[o][i] = IF store[o][i].id = msg.reminder.id
                                       THEN [store[o][i] EXCEPT !.status = status]
                                       ELSE store[o][i]
                 /\ \A p \in Obs \ {o} : store'[p] = store[p]
                 /\ last'.raised = ""]_vars

\* C25 witness: the handler has applied a stranger's event whose payload
\* status differs from its event name to reminder 1, while it holds a second
\* reminder with another status.
PayloadStatusApplied ==
    /\ last.op = "on_message"
    /\ "form" \notin DOMAIN last.arg
    /\ last.arg.source = Stranger
    /\ last.arg.event = "ignored"
    /\ last.arg.reminder.status = "archived"
    /\ Len(store[last.obs]) = 2
    /\ store[last.obs][1].status = "archived"
    /\ store[last.obs][2].status # "archived"

\* C26  A sync event whose event is outside completed, ignored, pending,
\* triggered ("created" included) or whose reminder id is missing changes no
\* table and no id counter; the handler raises nothing, catches nothing, logs
\* nothing and publishes nothing.
UnknownEventIgnored ==
    [][(/\ SyncEventStep
        /\ \/ last'.arg.event \notin {"completed", "ignored", "pending", "triggered"}
           \/ last'.arg.reminder.id = 0)
          => /\ store' = store
             /\ sqlite_sequence' = sqlite_sequence
             /\ last'.raised = ""
             /\ last'.caught = ""
             /\ last'.logged = <<>>
             /\ last'.published = <<>>]_vars

\* C26 witness: the handler has ignored a stranger's "created" event that
\* carries, for a held reminder, a status the reminder does not have.
CreatedEventIgnored ==
    /\ last.op = "on_message"
    /\ "form" \notin DOMAIN last.arg
    /\ last.arg.source = Stranger
    /\ last.arg.event = "created"
    /\ last.arg.reminder.id \in Ids(store[last.obs])
    /\ RowOf(store[last.obs], last.arg.reminder.id).status # last.arg.reminder.status

MalformedDiscarded ==
    [][(last'.op = "on_message" /\ "form" \in DOMAIN last'.arg)
          => /\ store' = store
             /\ sqlite_sequence' = sqlite_sequence
             /\ last'.raised = ""
             /\ last'.published = <<>>
             /\ subscribed' = subscribed]_vars

\* C30  Every stored reminder's status is pending, triggered, completed or
\* ignored, in every reachable state of the two observers: after creates,
\* status updates, sweeps and the sync events the handlers accepted.
StatusInSchema ==
    \A o \in Obs : \A i \in DOMAIN store[o] :
        store[o][i].status \in {"pending", "triggered", "completed", "ignored"}

\* The moment a reminder is ordered by: its due time if it has one, else the
\* moment of its insert.
KeyTime(row) ==
    fromisoformat(IF row.due_time # NULL THEN row.due_time ELSE row.created_at)

\* C29  list_reminders returns exactly the stored reminders whose status is
\* the given one (when one is given) and whose user is the given one (when
\* one is given), each once, in ascending order of the moment due time if
\* present, else creation time; it changes no table and no id counter.
ListSorted ==
    [][last'.op = "list_reminders"
          => LET rows   == store[last'.obs]
                 f      == last'.arg
                 wanted == {i \in DOMAIN rows :
                                /\ f.status # "" => rows[i].status = f.status
                                /\ f.user_id # "" => rows[i].user_id = f.user_id}
                 ret    == last'.ret
             IN  /\ Len(ret) = Cardinality(wanted)
                 /\ Range(ret) = {rows[i] : i \in wanted}
                 /\ \A i, j \in DOMAIN ret :
                        i < j => TimeLeq(KeyTime(ret[i]), KeyTime(ret[j]))
                 /\ store' = store
                 /\ sqlite_sequence' = sqlite_sequence
                 /\ last'.raised = ""]_vars

\* A row with its status blanked: what must never change.
Fixed(row) ==
    [row EXCEPT !.status = ""]

\* C31  No step removes or reorders a reminder or changes a reminder's id,
\* user, content, severity, due time, repeat rule, tags or creation time;
\* update_status and an applied sync event change at most the row of their
\* id, a sweep at most the pending rows due at its clock, and none of them
\* touches another observer's table.
FieldsImmutable ==
    [][/\ \A o \in Obs :
              /\ Len(store'[o]) >= Len(store[o])
              /\ \A i \in DOMAIN store[o] : Fixed(store'[o][i]) = Fixed(store[o][i])
       /\ last'.op \in {"update_status", "on_message", "trigger_due_reminders"}
            => LET o == last'.obs
               IN  /\ Len(store'[o]) = Len(store[o])
                   /\ \A p \in Obs \ {o} : store'[p] = store[p]
                   /\ \A i \in DOMAIN store[o] :
                          store'[o][i] # store[o][i]
                              => IF last'.op = "update_status"
                                 THEN store[o][i].id = last'.arg.id
                                 ELSE IF last'.op = "on_message"
                                 THEN store[o][i].id = last'.arg.reminder.id
                                 ELSE i \in DueAt(store[o], last'.arg)]_vars

\* C31 witness: a stranger's event has been applied to reminder 1 of a table
\* of two reminders, the second of which a sweep had triggered.
AppliedBesideTriggered ==
    /\ last.op = "on_message"
    /\ last.outcome = "applied"
    /\ last.arg.reminder.id = 1
    /\ Len(store[last.obs]) = 2
    /\ store[last.obs][1].status = "completed"
    /\ store[last.obs][2].status = "triggered"

\* C33  evaluate scores a field that is present with the value 0 as the
\* table does: a heart rate, a sleep or a temperature of 0 adds 2 to the
\* score the same snapshot has without the field.
ZeroIsScored ==
    last.op = "evaluate"
        => \A f \in {"heart_rate", "sleep", "temperature"} :
               last.arg[f] = <<0>>
                   => last.ret[1].score
                          = evaluate([last.arg EXCEPT ![f] = <<>>]).score + 2

\* C35  Every record trigger_due_reminders returns has status triggered and
\* equals the row the table holds for its id when the call returns.
SweepReturnsTriggered ==
    (last.op = "trigger_due_reminders" /\ last.raised = "")
        => \A i \in DOMAIN last.ret :
               /\ last.ret[i].status = "triggered"
               /\ last.ret[i] = RowOf(store[last.obs], last.ret[i].id)

\* C34  The records a route call logs are in the order routing_request, the
\* created lifecycle records of the reminders the call inserted (in the
\* order of their insertion), routing_result: a routing_request is the first
\* record and no other, a routing_result is the last record and no other, it
\* carries the returned message and is there exactly when route returns, and
\* no reminder is inserted and no result returned unless the routing_request
\* was logged.
LogOrder ==
    [][last'.op = "route"
          => LET L   == last'.logged
                 new == Appended(last'.obs)
                 mid == SelectSeq(L, LAMBDA r : r.event_type = "reminder_event")
             IN  /\ (new # <<>> \/ last'.ret # <<>>) => L # <<>>
                 /\ \A i \in DOMAIN L :
                        /\ (L[i].event_type = "routing_request") <=> (i = 1)
                        /\ L[i].event_type = "routing_result"
                               => (i = Len(L) /\ i > 1 /\ last'.raised = "")
                        /\ L[i].event_type \in {"routing_request", "reminder_event",
                                                "routing_result"}
                 /\ last'.raised = ""
                        => /\ Len(L) >= 2
                           /\ L[Len(L)].event_type = "routing_result"
                           /\ L[Len(L)].message = last'.ret[1].message
                           /\ L[Len(L)].route = last'.ret[1].route
                           /\ Len(mid) = Len(new)
                 /\ Len(mid) <= Len(new)
                 /\ \A i \in DOMAIN mid :
                        /\ mid[i].status = "created"
                        /\ mid[i].reminder_id = new[i].id]_vars

\* C34 witness: a route call on Scenario A has returned after logging six
\* records, four of them lifecycle records.
MacroLogged ==
    /\ last.op = "route"
    /\ last.arg.state = ScenarioA
    /\ last.raised = ""
    /\ Len(last.logged) = 6
    /\ last.logged[2].event_type = "reminder_event"
    /\ last.logged[6].event_type = "routing_result"

\* A row without its id.
Unnumbered(row) ==
    [row EXCEPT !.id = 0]

\* C36  A route call changes no row that exists and no table of another
\* observer; on the rag and the template path it leaves the table and the id
\* counter as they are and publishes nothing; the reminders it appends are
\* those the same call appends to an empty table, whatever pending
\* reminders the table holds, and on a snapshot that fires a macro a call
\* that reaches the macro path appends at least one.
RouteFrame ==
    [][last'.op = "route"
          => LET o     == last'.obs
                 state == last'.arg.state
                 level == evaluate(state).level
             IN  /\ Len(store'[o]) >= Len(store[o])
                 /\ SubSeq(store'[o], 1, Len(store[o])) = store[o]
                 /\ \A p \in Obs \ {o} : store'[p] = store[p]
                 /\ level # "high"
                      => /\ store' = store
                         /\ sqlite_sequence' = sqlite_sequence
                         /\ last'.published = <<>>
                 /\ \A fresh \in {route(o, <<>>, 0, state, last'.arg.now, last'.arg.env).rows} :
                        /\ Len(Appended(o)) = Len(fresh)
                        /\ \A i \in DOMAIN fresh :
                               Unnumbered(Appended(o)[i]) = Unnumbered(fresh[i])
                 /\ (/\ level = "high"
                     /\ last'.arg.env.failAt # 1
                     /\ heat_fires(state) \/ sleep_fires(state))
                      => Appended(o) # <<>>]_vars

\* C36 witness: a route call has returned with the table holding two pending
\* hydration reminders of one user.
HydrateTwice ==
    /\ last.op = "route"
    /\ last.raised = ""
    /\ \E i, j \in DOMAIN store[last.obs] :
           /\ i < j
           /\ store[last.obs][i].content = "hydrate"
           /\ store[last.obs][j].content = "hydrate"
           /\ store[last.obs][i].user_id = store[last.obs][j].user_id
           /\ store[last.obs][i].status = "pending"
           /\ store[last.obs][j].status = "pending"

\* C37  An observer whose table a received sync event changes holds, under
\* the event's reminder id, the reminder of the payload: the same user and
\* the same content.
SameReminderOnly ==
    [][(/\ last'.op = "on_message"
        /\ store'[last'.obs] # store[last'.obs])
          => LET row == RowOf(store[last'.obs], last'.arg.reminder.id)
             IN  /\ row.user_id = last'.arg.reminder.user_id
                 /\ row.content = last'.arg.reminder.content]_vars

\* C32  A write of the sweep moves to triggered only a reminder that is
\* pending when the write is made: it never overwrites a status that a sync
\* event set after the sweep's SELECT.
SweepAtomic ==
    [][(last'.op = "commit" /\ last'.arg.by = "sweep")
          => RowOf(store[last'.obs], last'.arg.id).status = "pending"]_vars

\* C38  Once no thread is inside a manager call, the last status event the
\* process has published for a reminder carries the status its table holds.
PublishedInCommitOrder ==
    (\A t \in Threads : running[t] = Idle)
        => \A id \in Ids(store["hostA"]) :
               \A evs \in {SelectSeq(inbox["hostB"],
                                     LAMBDA msg : /\ msg.source = "hostA"
                                                  /\ msg.reminder.id = id
                                                  /\ msg.event # "created")} :
                   evs # <<>>
                       => evs[Len(evs)].event = RowOf(store["hostA"], id).status

====
